---- MODULE Spec2Model ----
(***************************************************************************)
(* Model of src/main.go: an HTTP relay with two handlers.  /send forwards  *)
(* a message to the Telegram bot API, /subscribe forwards an email (and    *)
(* optional attribution fields) to the beehiiv subscription API.           *)
(*                                                                         *)
(* Every inbound request is one entry of reqs, in order of arrival.  A     *)
(* handler runs from its entry to its outbound HTTP call (or to its early  *)
(* return) in one step, waits for the outbound call, and then runs to its  *)
(* return in a second step.  Handlers of different requests interleave.    *)
(***************************************************************************)
EXTENDS Naturals, Sequences, FiniteSets

VARIABLES
    proc,     \* position of main: "boot", "serving" or "fatal"
    env,      \* the process environment (os.Getenv)
    config,   \* the Config built by main and captured by the /send closure
    reqs      \* the inbound requests, one record per request, by arrival

vars == <<proc, env, config, reqs>>

(***************************************************************************)
(* Bounds and input domains                                                *)
(***************************************************************************)
MaxRequests == 2

StatusOK == 200
StatusCreated == 201
StatusMethodNotAllowed == 405

EnvNames == {"TELEGRAM_BOT_TOKEN", "TELEGRAM_CHAT_ID",
             "BEEHIIV_PUBLICATION_ID", "BEEHIIV_API_KEY"}

\* Values an environment variable takes; "" is an unset (or empty) variable.
\* "pub%zz" is a non-empty publication id that net/url refuses to parse
\* (an invalid percent escape), so that http.NewRequest fails.
BotTokens == {"", "123:abc"}
ChatIDs == {"", "42"}
PublicationIDs == {"", "pub_1", "pub%zz"}
APIKeys == {"", "key_1"}

Environments ==
    {e \in [EnvNames -> BotTokens \cup ChatIDs \cup PublicationIDs \cup APIKeys] :
        /\ e["TELEGRAM_BOT_TOKEN"] \in BotTokens
        /\ e["TELEGRAM_CHAT_ID"] \in ChatIDs
        /\ e["BEEHIIV_PUBLICATION_ID"] \in PublicationIDs
        /\ e["BEEHIIV_API_KEY"] \in APIKeys}

Getenv(e, name) == e[name]

(***************************************************************************)
(* JSON request bodies.  A body is either not JSON at all or a JSON object *)
(* mapping some keys to values; a value is a JSON string or a JSON number. *)
(***************************************************************************)
JStr(s) == <<"str", s>>
JNum == <<"num", "7">>

NotJSON == [json |-> FALSE, obj |-> [k \in {} |-> JNum]]
Obj(f) == [json |-> TRUE, obj |-> f]
EmptyObj == Obj([k \in {} |-> JNum])

MessageFields == {"message"}
OptionalFields == {"utm_source", "utm_medium", "referring_site"}
SubscribeFields == {"email"} \cup OptionalFields

SendBodies ==
    { NotJSON, EmptyObj,
      Obj([k \in {"message"} |-> JStr("")]),
      Obj([k \in {"message"} |-> JNum]),
      Obj([k \in {"message"} |-> JStr("hi")]) }

\* The optional fields a subscribe body gives: none, one, two, all.
OptionalSubsets ==
    { {}, {"utm_source"}, {"utm_medium", "referring_site"}, OptionalFields }

SubscribeBodies ==
    { NotJSON, EmptyObj,
      Obj([k \in {"email"} |-> JNum]),
      Obj([k \in SubscribeFields |-> IF k = "email" THEN JStr("") ELSE JStr("v_" \o k)]),
      Obj([k \in {"email", "utm_source"} |-> IF k = "email" THEN JStr("a@b.com") ELSE JStr("")]) }
    \cup { Obj([k \in {"email"} \cup S |-> IF k = "email" THEN JStr("a@b.com") ELSE JStr("v_" \o k)]) :
             S \in OptionalSubsets }

\* The requests a client sends: every body by POST, and two of them by GET.
Inbound ==
    ({"/send"} \X {"POST"} \X SendBodies)
    \cup ({"/send"} \X {"GET"} \X {NotJSON, Obj([k \in {"message"} |-> JStr("hi")])})
    \cup ({"/subscribe"} \X {"POST"} \X SubscribeBodies)
    \cup ({"/subscribe"} \X {"GET"} \X {NotJSON, Obj([k \in {"email"} |-> JStr("a@b.com")])})

\* One request of each kind (wrong method, malformed, empty field, valid) per
\* endpoint: the requests of the specification with fairness.
InboundCore ==
    ({"/send"} \X {"POST"} \X
        {NotJSON, Obj([k \in {"message"} |-> JStr("")]),
         Obj([k \in {"message"} |-> JStr("hi")])})
    \cup ({"/send"} \X {"GET"} \X {Obj([k \in {"message"} |-> JStr("hi")])})
    \cup ({"/subscribe"} \X {"POST"} \X
        {NotJSON, Obj([k \in {"email"} |-> JStr("")]),
         Obj([k \in {"email"} |-> JStr("a@b.com")])})
    \cup ({"/subscribe"} \X {"GET"} \X {Obj([k \in {"email"} |-> JStr("a@b.com")])})

\* What an outbound HTTP call returns: a transport error, or a response
\* with a status code.
Statuses == {StatusOK, StatusCreated, 500}
Outcomes == {[transport |-> TRUE, code |-> 0]}
            \cup {[transport |-> FALSE, code |-> c] : c \in Statuses}
NoOutcome == [transport |-> FALSE, code |-> 0]

(***************************************************************************)
(* encoding/json: Decoder.Decode into a struct with the string fields      *)
(* `fields`.  Text that is not JSON, or a non-string value for one of the  *)
(* fields, is an error; a key that is absent leaves the field "".          *)
(***************************************************************************)
Decode(body, fields) ==
    IF ~body.json
      THEN [err |-> TRUE, val |-> [k \in fields |-> ""]]
      ELSE IF \E k \in (DOMAIN body.obj) \cap fields : body.obj[k][1] # "str"
        THEN [err |-> TRUE, val |-> [k \in fields |-> ""]]
        ELSE [err |-> FALSE,
              val |-> [k \in fields |->
                         IF k \in DOMAIN body.obj THEN body.obj[k][2] ELSE ""]]

\* fmt's %d of a status code.
Itoa(n) ==
    CASE n = 200 -> "200"
      [] n = 201 -> "201"
      [] n = 405 -> "405"
      [] n = 500 -> "500"
      [] OTHER -> "0"

\* net/url: whether http.NewRequest can parse a URL made of these parts.
URLParses(url) == \A n \in DOMAIN url : url[n] # "pub%zz"

(***************************************************************************)
(* What a handler writes to its http.ResponseWriter.                       *)
(***************************************************************************)
NoResponse == [status |-> 0, kind |-> "none", key |-> "", text |-> <<>>]

\* http.Error(w, msg, code): a plain-text body under the status `code`.
HttpError(msg, code) ==
    [status |-> code, kind |-> "text", key |-> "", text |-> <<msg>>]

\* Mutant of EncodeError: the error envelope is written under status 400.
EncodeErrorBadRequest(text) ==
    [status |-> 400, kind |-> "json", key |-> "error", text |-> text]

\* json.NewEncoder(w).Encode(ErrorResponse{Error: text}); the first write
\* to w sends the header with status 200.
EncodeError(text) ==
    [status |-> StatusOK, kind |-> "json", key |-> "error", text |-> text]

\* json.NewEncoder(w).Encode(map[string]string{"status": msg})
EncodeStatus(msg) ==
    [status |-> StatusOK, kind |-> "json", key |-> "status", text |-> <<msg>>]

NoErr == <<>>
NoOut == [method |-> "", url |-> <<>>, ctype |-> "", auth |-> <<>>,
          body |-> [k \in {} |-> ""]]

\* A request as the mux hands it to its handler.
NewRequest(path, method, body) ==
    [path |-> path, method |-> method, body |-> body, pc |-> "handle",
     decoded |-> FALSE, out |-> NoOut, calls |-> 0, outcome |-> NoOutcome,
     resp |-> NoResponse, nresp |-> 0]

\* The handler writes `resp` and returns.
Reply(r, resp) ==
    [r EXCEPT !.pc = "done", !.resp = resp, !.nresp = @ + 1]

\* The handler has run json.NewDecoder(r.Body).Decode on the body.
Decoded(r) == [r EXCEPT !.decoded = TRUE]

\* The handler issues the outbound request `out` and waits for it.
Call(r, out) ==
    [r EXCEPT !.pc = "call", !.out = out, !.calls = @ + 1]

(***************************************************************************)
(* /send                                                                   *)
(***************************************************************************)
\* sendTelegramMessage up to http.Post: the request it posts.
TelegramRequest(cfg, message) ==
    [method |-> "POST",
     url |-> <<"https://api.telegram.org/bot", cfg.BotToken, "/sendMessage">>,
     ctype |-> "application/json",
     auth |-> <<>>,
     body |-> [k \in {"chat_id", "text", "parse_mode"} |->
                 CASE k = "chat_id" -> cfg.ChatID
                   [] k = "text" -> message
                   [] OTHER -> "HTML"]]

\* Mutant of sendTelegramMessageReturn: 201 is accepted as on /subscribe.
sendTelegramMessageReturnAccepts201(o) ==
    IF o.transport
      THEN <<"error sending message: ", "transport">>
      ELSE IF o.code # StatusOK /\ o.code # StatusCreated
        THEN <<"unexpected status code: ", Itoa(o.code)>>
        ELSE NoErr

\* sendTelegramMessage after http.Post returned `o`: the error it returns.
sendTelegramMessageReturn(o) ==
    IF o.transport
      THEN <<"error sending message: ", "transport">>
      ELSE IF o.code # StatusOK
        THEN <<"unexpected status code: ", Itoa(o.code)>>
        ELSE NoErr

\* Mutant of handleSendMessageEntry: the empty-message check is missing.
handleSendMessageEntryNoEmptyCheck(r, cfg) ==
    IF r.method # "POST"
      THEN Reply(r, HttpError("Method not allowed", StatusMethodNotAllowed))
      ELSE LET d == Decode(r.body, MessageFields) IN
        IF d.err
          THEN Reply(Decoded(r), EncodeError(<<"Invalid request body">>))
          ELSE Call(Decoded(r), TelegramRequest(cfg, d.val["message"]))

\* handleSendMessage from its entry to the outbound call or an early return.
handleSendMessageEntry(r, cfg) ==
    IF r.method # "POST"
      THEN Reply(r, HttpError("Method not allowed", StatusMethodNotAllowed))
      ELSE LET d == Decode(r.body, MessageFields) IN
        IF d.err
          THEN Reply(Decoded(r), EncodeError(<<"Invalid request body">>))
          ELSE IF d.val["message"] = ""
            THEN Reply(Decoded(r), EncodeError(<<"Message cannot be empty">>))
            ELSE Call(Decoded(r), TelegramRequest(cfg, d.val["message"]))

\* Mutant of handleSendMessageReturn: a failed call is tried a second time.
handleSendMessageReturnRetry(r, o) ==
    LET err == sendTelegramMessageReturn(o) IN
    IF err # NoErr
      THEN IF r.calls < 2
             THEN Call(r, r.out)
             ELSE Reply([r EXCEPT !.outcome = o], EncodeError(err))
      ELSE Reply([r EXCEPT !.outcome = o],
                 EncodeStatus("Message sent successfully"))

\* handleSendMessage once the outbound call returned `o`.
handleSendMessageReturn(r, o) ==
    LET err == sendTelegramMessageReturn(o) IN
    IF err # NoErr
      THEN Reply([r EXCEPT !.outcome = o], EncodeError(err))
      ELSE Reply([r EXCEPT !.outcome = o],
                 EncodeStatus("Message sent successfully"))

(***************************************************************************)
(* /subscribe                                                              *)
(***************************************************************************)
\* Mutant of Payload: the optional fields are sent even when empty.
PayloadAllFields(req) ==
    [k \in {"email"} \cup OptionalFields |-> req[k]]

\* The payload map of subscribeToBeehiiv: email always, an optional field
\* only when it is not empty.
Payload(req) ==
    [k \in {"email"} \cup {f \in OptionalFields : req[f] # ""} |-> req[k]]

\* Mutant of subscribeToBeehiivPrepare: BEEHIIV_API_KEY is not checked.
subscribeToBeehiivPrepareNoKeyCheck(e, req) ==
    LET publicationID == Getenv(e, "BEEHIIV_PUBLICATION_ID")
        url == <<"https://api.beehiiv.com/v2/publications/", publicationID,
                 "/subscriptions">>
        apiKey == Getenv(e, "BEEHIIV_API_KEY")
    IN
    IF publicationID = ""
      THEN [err |-> <<"BEEHIIV_PUBLICATION_ID environment variable is required">>,
            out |-> NoOut]
      ELSE IF ~URLParses(url)
        THEN [err |-> <<"error creating request: ", "parse">>, out |-> NoOut]
        ELSE [err |-> NoErr,
              out |-> [method |-> "POST",
                       url |-> url,
                       ctype |-> "application/json",
                       auth |-> <<"Bearer ", apiKey>>,
                       body |-> Payload(req)]]

\* Mutant of subscribeToBeehiivPrepare: BEEHIIV_API_KEY is checked first.
subscribeToBeehiivPrepareKeyFirst(e, req) ==
    LET publicationID == Getenv(e, "BEEHIIV_PUBLICATION_ID")
        url == <<"https://api.beehiiv.com/v2/publications/", publicationID,
                 "/subscriptions">>
        apiKey == Getenv(e, "BEEHIIV_API_KEY")
    IN
    IF apiKey = ""
      THEN [err |-> <<"BEEHIIV_API_KEY environment variable is required">>,
            out |-> NoOut]
      ELSE IF publicationID = ""
        THEN [err |-> <<"BEEHIIV_PUBLICATION_ID environment variable is required">>,
              out |-> NoOut]
        ELSE IF ~URLParses(url)
          THEN [err |-> <<"error creating request: ", "parse">>, out |-> NoOut]
          ELSE [err |-> NoErr,
                out |-> [method |-> "POST",
                         url |-> url,
                         ctype |-> "application/json",
                         auth |-> <<"Bearer ", apiKey>>,
                         body |-> Payload(req)]]

\* subscribeToBeehiiv up to client.Do: the error it returns early, or the
\* request it sends.
subscribeToBeehiivPrepare(e, req) ==
    LET publicationID == Getenv(e, "BEEHIIV_PUBLICATION_ID")
        url == <<"https://api.beehiiv.com/v2/publications/", publicationID,
                 "/subscriptions">>
        apiKey == Getenv(e, "BEEHIIV_API_KEY")
    IN
    IF publicationID = ""
      THEN [err |-> <<"BEEHIIV_PUBLICATION_ID environment variable is required">>,
            out |-> NoOut]
      ELSE IF ~URLParses(url)
        THEN [err |-> <<"error creating request: ", "parse">>, out |-> NoOut]
        ELSE IF apiKey = ""
          THEN [err |-> <<"BEEHIIV_API_KEY environment variable is required">>,
                out |-> NoOut]
          ELSE [err |-> NoErr,
                out |-> [method |-> "POST",
                         url |-> url,
                         ctype |-> "application/json",
                         auth |-> <<"Bearer ", apiKey>>,
                         body |-> Payload(req)]]

\* subscribeToBeehiiv after client.Do returned `o`: the error it returns.
subscribeToBeehiivReturn(o) ==
    IF o.transport
      THEN <<"error sending request: ", "transport">>
      ELSE IF o.code # StatusOK /\ o.code # StatusCreated
        THEN <<"unexpected status code: ", Itoa(o.code)>>
        ELSE NoErr

\* Mutant of handleSubscribeEntry: the method check is missing.
handleSubscribeEntryNoMethodCheck(r, e) ==
    LET d == Decode(r.body, SubscribeFields) IN
    IF d.err
      THEN Reply(Decoded(r), EncodeError(<<"Invalid request body">>))
      ELSE IF d.val["email"] = ""
        THEN Reply(Decoded(r), EncodeError(<<"Email cannot be empty">>))
        ELSE LET p == subscribeToBeehiivPrepare(e, d.val) IN
          IF p.err # NoErr
            THEN Reply(Decoded(r), EncodeError(p.err))
            ELSE Call(Decoded(r), p.out)

\* handleSubscribe from its entry to the outbound call or an early return.
handleSubscribeEntry(r, e) ==
    IF r.method # "POST"
      THEN Reply(r, HttpError("Method not allowed", StatusMethodNotAllowed))
      ELSE LET d == Decode(r.body, SubscribeFields) IN
        IF d.err
          THEN Reply(Decoded(r), EncodeError(<<"Invalid request body">>))
          ELSE IF d.val["email"] = ""
            THEN Reply(Decoded(r), EncodeError(<<"Email cannot be empty">>))
            ELSE LET p == subscribeToBeehiivPrepare(e, d.val) IN
              IF p.err # NoErr
                THEN Reply(Decoded(r), EncodeError(p.err))
                ELSE Call(Decoded(r), p.out)

\* Mutant of handleSubscribeReturn: the error of client.Do is not checked,
\* so that a transport error makes the handler panic on the nil response
\* and the request is never answered.
handleSubscribeReturnNoErrCheck(r, o) ==
    IF o.transport
      THEN [r EXCEPT !.pc = "panic", !.outcome = o]
      ELSE IF subscribeToBeehiivReturn(o) # NoErr
        THEN Reply([r EXCEPT !.outcome = o], EncodeError(subscribeToBeehiivReturn(o)))
        ELSE Reply([r EXCEPT !.outcome = o],
                   EncodeStatus("Subscription successful"))

\* handleSubscribe once the outbound call returned `o`.
handleSubscribeReturn(r, o) ==
    LET err == subscribeToBeehiivReturn(o) IN
    IF err # NoErr
      THEN Reply([r EXCEPT !.outcome = o], EncodeError(err))
      ELSE Reply([r EXCEPT !.outcome = o],
                 EncodeStatus("Subscription successful"))

(***************************************************************************)
(* The state machine                                                       *)
(***************************************************************************)
NoConfig == [BotToken |-> "", ChatID |-> ""]

Init ==
    /\ proc = "boot"
    /\ env \in Environments
    /\ config = NoConfig
    /\ reqs = <<>>

\* main: reads the Telegram settings, exits when one is missing, otherwise
\* builds the Config, registers both handlers and listens; a listener that
\* cannot be started ends the process as well.
Main ==
    /\ proc = "boot"
    /\ LET botToken == Getenv(env, "TELEGRAM_BOT_TOKEN")
           chatID == Getenv(env, "TELEGRAM_CHAT_ID")
       IN IF botToken = "" \/ chatID = ""
            THEN /\ proc' = "fatal"
                 /\ UNCHANGED config
            ELSE /\ config' = [BotToken |-> botToken, ChatID |-> chatID]
                 /\ \E listening \in BOOLEAN :
                       proc' = IF listening THEN "serving" ELSE "fatal"
    /\ UNCHANGED <<env, reqs>>

\* The server accepts a request and starts its handler.
Accept(path, method, body) ==
    /\ proc = "serving"
    /\ Len(reqs) < MaxRequests
    /\ reqs' = Append(reqs, NewRequest(path, method, body))
    /\ UNCHANGED <<proc, env, config>>

AcceptAny == \E in \in Inbound : Accept(in[1], in[2], in[3])

\* Mutant of HandleSendMessage: the decoded request lives in a variable
\* shared by all handlers, which holds the body accepted last.
HandleSendMessageSharedBuffer(i) ==
    /\ proc = "serving"
    /\ i \in DOMAIN reqs
    /\ reqs[i].path = "/send"
    /\ reqs[i].pc = "handle"
    /\ LET shared == [reqs[i] EXCEPT !.body = reqs[Len(reqs)].body]
           after == handleSendMessageEntry(shared, config)
       IN reqs' = [reqs EXCEPT ![i] = [after EXCEPT !.body = reqs[i].body]]
    /\ UNCHANGED <<proc, env, config>>

HandleSendMessage(i) ==
    /\ proc = "serving"
    /\ i \in DOMAIN reqs
    /\ reqs[i].path = "/send"
    /\ reqs[i].pc = "handle"
    /\ reqs' = [reqs EXCEPT ![i] = handleSendMessageEntry(reqs[i], config)]
    /\ UNCHANGED <<proc, env, config>>

TelegramReturns(i, o) ==
    /\ proc = "serving"
    /\ i \in DOMAIN reqs
    /\ reqs[i].path = "/send"
    /\ reqs[i].pc = "call"
    /\ reqs' = [reqs EXCEPT ![i] = handleSendMessageReturn(reqs[i], o)]
    /\ UNCHANGED <<proc, env, config>>

HandleSubscribe(i) ==
    /\ proc = "serving"
    /\ i \in DOMAIN reqs
    /\ reqs[i].path = "/subscribe"
    /\ reqs[i].pc = "handle"
    /\ reqs' = [reqs EXCEPT ![i] = handleSubscribeEntry(reqs[i], env)]
    /\ UNCHANGED <<proc, env, config>>

BeehiivReturns(i, o) ==
    /\ proc = "serving"
    /\ i \in DOMAIN reqs
    /\ reqs[i].path = "/subscribe"
    /\ reqs[i].pc = "call"
    /\ reqs' = [reqs EXCEPT ![i] = handleSubscribeReturn(reqs[i], o)]
    /\ UNCHANGED <<proc, env, config>>

Next ==
    \/ Main
    \/ AcceptAny
    \/ \E i \in 1..MaxRequests : HandleSendMessage(i)
    \/ \E i \in 1..MaxRequests : \E o \in Outcomes : TelegramReturns(i, o)
    \/ \E i \in 1..MaxRequests : HandleSubscribe(i)
    \/ \E i \in 1..MaxRequests : \E o \in Outcomes : BeehiivReturns(i, o)

Spec == Init /\ [][Next]_vars

AcceptCore == \E in \in InboundCore : Accept(in[1], in[2], in[3])

\* Next with one request of each kind per endpoint.
NextCore ==
    \/ Main
    \/ AcceptCore
    \/ \E i \in 1..MaxRequests : HandleSendMessage(i)
    \/ \E i \in 1..MaxRequests : \E o \in Outcomes : TelegramReturns(i, o)
    \/ \E i \in 1..MaxRequests : HandleSubscribe(i)
    \/ \E i \in 1..MaxRequests : \E o \in Outcomes : BeehiivReturns(i, o)

\* Every handler goroutine is scheduled, and every outbound call returns.
Fairness ==
    \A i \in 1..MaxRequests :
        /\ WF_vars(HandleSendMessage(i))
        /\ WF_vars(HandleSubscribe(i))
        /\ WF_vars(\E o \in Outcomes : TelegramReturns(i, o))
        /\ WF_vars(\E o \in Outcomes : BeehiivReturns(i, o))

FairSpec == Init /\ [][NextCore]_vars /\ Fairness

(***************************************************************************)
(* Vocabulary of the properties: what a client sent and what it got back,  *)
(* read off the raw request and the written response.                      *)
(***************************************************************************)
FieldsOf(path) == IF path = "/send" THEN MessageFields ELSE SubscribeFields
RequiredOf(path) == IF path = "/send" THEN "message" ELSE "email"

\* The body is JSON and gives a string for every field it mentions.
Decodes(r) ==
    /\ r.body.json
    /\ \A k \in (DOMAIN r.body.obj) \cap FieldsOf(r.path) : r.body.obj[k] = JStr(r.body.obj[k][2])

\* The inbound value of field k ("" when the body leaves it out).
In(r, k) == IF k \in DOMAIN r.body.obj THEN r.body.obj[k][2] ELSE ""

IsPost(r) == r.method = "POST"
EmptyField(r) == IsPost(r) /\ Decodes(r) /\ In(r, RequiredOf(r.path)) = ""
Valid(r) == IsPost(r) /\ Decodes(r) /\ In(r, RequiredOf(r.path)) # ""
Done(r) == r.pc = "done"

ErrorEnvelope(r, text) ==
    r.resp.kind = "json" /\ r.resp.key = "error" /\ r.resp.text = text
SuccessEnvelope(r) ==
    /\ r.resp.kind = "json"
    /\ r.resp.key = "status"
    /\ r.resp.text = IF r.path = "/send" THEN <<"Message sent successfully">>
                                         ELSE <<"Subscription successful">>
EmptyText(path) ==
    IF path = "/send" THEN <<"Message cannot be empty">>
                      ELSE <<"Email cannot be empty">>

(***************************************************************************)
(* C1: a POST whose body decodes but whose required field (message on      *)
(* /send, email on /subscribe) is empty is answered with exactly the error *)
(* envelope carrying the endpoint's fixed text, and no outbound call is    *)
(* ever issued for it.                                                     *)
(***************************************************************************)
C1_EmptyFieldRejected ==
    \A i \in DOMAIN reqs :
        EmptyField(reqs[i]) =>
            /\ reqs[i].calls = 0
            /\ reqs[i].out = NoOut
            /\ reqs[i].pc # "call"
            /\ Done(reqs[i]) =>
                  /\ ErrorEnvelope(reqs[i], EmptyText(reqs[i].path))
                  /\ reqs[i].nresp = 1

C1_Witness ==
    /\ Len(reqs) = 2
    /\ reqs[1].path = "/send" /\ reqs[2].path = "/subscribe"
    /\ \A i \in {1, 2} : EmptyField(reqs[i]) /\ Done(reqs[i])
    /\ "message" \in DOMAIN reqs[1].body.obj
    /\ "utm_source" \in DOMAIN reqs[2].body.obj

(***************************************************************************)
(* C2: a valid /send request gets the success envelope exactly when its    *)
(* outbound call completed with status 200; a valid /subscribe request     *)
(* gets it exactly when its outbound call completed with status 200 or     *)
(* 201.  So 201 is success on /subscribe and failure on /send.             *)
(***************************************************************************)
Completed(r, codes) ==
    r.calls = 1 /\ ~r.outcome.transport /\ r.outcome.code \in codes

C2_AcceptedStatuses ==
    \A i \in DOMAIN reqs :
        (Valid(reqs[i]) /\ Done(reqs[i])) =>
            /\ reqs[i].path = "/send" =>
                  (SuccessEnvelope(reqs[i]) <=> Completed(reqs[i], {StatusOK}))
            /\ reqs[i].path = "/subscribe" =>
                  (SuccessEnvelope(reqs[i])
                     <=> Completed(reqs[i], {StatusOK, StatusCreated}))
            /\ ~SuccessEnvelope(reqs[i]) => reqs[i].resp.key = "error"

C2_Witness ==
    \E i, j \in DOMAIN reqs :
        /\ reqs[i].path = "/send" /\ reqs[j].path = "/subscribe"
        /\ Done(reqs[i]) /\ Done(reqs[j])
        /\ Completed(reqs[i], {StatusCreated})
        /\ Completed(reqs[j], {StatusCreated})
        /\ ErrorEnvelope(reqs[i], <<"unexpected status code: ", "201">>)
        /\ SuccessEnvelope(reqs[j])

(***************************************************************************)
(* C3: a request whose method is not POST, whatever its body, is answered  *)
(* with the plain text "Method not allowed" under status 405 and no JSON   *)
(* envelope; its body is never decoded and no outbound call is issued.     *)
(***************************************************************************)
C3_MethodRejected ==
    \A i \in DOMAIN reqs :
        ~IsPost(reqs[i]) =>
            /\ ~reqs[i].decoded
            /\ reqs[i].calls = 0
            /\ reqs[i].out = NoOut
            /\ reqs[i].pc # "call"
            /\ Done(reqs[i]) =>
                  reqs[i].resp = [status |-> StatusMethodNotAllowed, kind |-> "text",
                                  key |-> "", text |-> <<"Method not allowed">>]

C3_Witness ==
    /\ Len(reqs) = 2
    /\ reqs[1].path = "/send" /\ reqs[2].path = "/subscribe"
    /\ \A i \in {1, 2} : ~IsPost(reqs[i]) /\ Done(reqs[i])
    /\ ~reqs[1].body.json
    /\ Valid([reqs[2] EXCEPT !.method = "POST"])

(***************************************************************************)
(* C4: the outbound payload of a /subscribe request always holds email     *)
(* with the inbound value; it holds utm_source, utm_medium and             *)
(* referring_site exactly when the inbound field is not empty, with the    *)
(* inbound value; it holds no other key and no optional key as "".         *)
(***************************************************************************)
C4_Payload ==
    \A i \in DOMAIN reqs :
        (reqs[i].path = "/subscribe" /\ reqs[i].calls >= 1) =>
            LET body == reqs[i].out.body IN
            /\ DOMAIN body \subseteq SubscribeFields
            /\ "email" \in DOMAIN body
            /\ body["email"] = In(reqs[i], "email")
            /\ \A k \in OptionalFields :
                  /\ k \in DOMAIN body <=> In(reqs[i], k) # ""
                  /\ k \in DOMAIN body => body[k] = In(reqs[i], k) /\ body[k] # ""

C4_Witness ==
    /\ Len(reqs) = 2
    /\ \A i \in {1, 2} : reqs[i].path = "/subscribe" /\ reqs[i].calls = 1
    /\ DOMAIN reqs[1].out.body = {"email", "utm_medium", "referring_site"}
    /\ reqs[1].out.body["utm_medium"] = "v_utm_medium"
    /\ DOMAIN reqs[2].out.body = {"email"}
    /\ "utm_source" \in DOMAIN reqs[2].body.obj

(***************************************************************************)
(* C5: when BEEHIIV_API_KEY is missing while a valid /subscribe request is *)
(* handled, the answer is an error envelope, no outbound call is issued,   *)
(* and the process keeps serving.                                          *)
(***************************************************************************)
PublicationID == Getenv(env, "BEEHIIV_PUBLICATION_ID")
APIKey == Getenv(env, "BEEHIIV_API_KEY")
Required(name) == <<name \o " environment variable is required">>
StillServing == proc = "serving" /\ (Len(reqs) < MaxRequests => ENABLED AcceptAny)

\* C5 as stated: the error envelope always references BEEHIIV_API_KEY.
C5_Original ==
    \A i \in DOMAIN reqs :
        (reqs[i].path = "/subscribe" /\ Valid(reqs[i]) /\ APIKey = "") =>
            /\ reqs[i].calls = 0
            /\ StillServing
            /\ Done(reqs[i]) => ErrorEnvelope(reqs[i], Required("BEEHIIV_API_KEY"))

\* C5 as amended: the error envelope references BEEHIIV_API_KEY when
\* BEEHIIV_PUBLICATION_ID is set and gives a URL that parses; it names
\* BEEHIIV_PUBLICATION_ID when that one is missing too, and is the
\* request-construction error when the URL does not parse.  In every case
\* there is no outbound call and the process keeps serving.
C5_MissingAPIKey ==
    \A i \in DOMAIN reqs :
        (reqs[i].path = "/subscribe" /\ Valid(reqs[i]) /\ APIKey = "") =>
            /\ reqs[i].calls = 0
            /\ reqs[i].out = NoOut
            /\ reqs[i].pc # "call"
            /\ StillServing
            /\ Done(reqs[i]) =>
                  /\ reqs[i].resp.kind = "json" /\ reqs[i].resp.key = "error"
                  /\ (PublicationID # "" /\ URLParses(<<PublicationID>>))
                        => ErrorEnvelope(reqs[i], Required("BEEHIIV_API_KEY"))
                  /\ PublicationID = ""
                        => ErrorEnvelope(reqs[i], Required("BEEHIIV_PUBLICATION_ID"))
                  /\ (PublicationID # "" /\ ~URLParses(<<PublicationID>>))
                        => ErrorEnvelope(reqs[i], <<"error creating request: ", "parse">>)

C5_Witness ==
    /\ APIKey = "" /\ PublicationID = "pub_1"
    /\ Len(reqs) = 1
    /\ reqs[1].path = "/subscribe" /\ Valid(reqs[1]) /\ Done(reqs[1])
    /\ ErrorEnvelope(reqs[1], Required("BEEHIIV_API_KEY"))
    /\ ENABLED AcceptAny

(***************************************************************************)
(* C6: a valid /send request causes exactly one outbound call, and no      *)
(* request on either endpoint causes more than one: after a transport      *)
(* failure or a status that is not accepted the handler answers with an    *)
(* error envelope and makes no second attempt.                             *)
(***************************************************************************)
Accepted(path) == IF path = "/send" THEN {StatusOK} ELSE {StatusOK, StatusCreated}
Failed(r) == r.calls >= 1 /\ Done(r) /\ ~Completed(r, Accepted(r.path))

C6_OneOutboundCall ==
    \A i \in DOMAIN reqs :
        /\ reqs[i].calls <= 1
        /\ (reqs[i].path = "/send" /\ Valid(reqs[i]) /\ reqs[i].pc # "handle")
              => reqs[i].calls = 1
        /\ reqs[i].pc = "call" => reqs[i].calls = 1
        /\ Failed(reqs[i]) =>
              /\ reqs[i].calls = 1
              /\ reqs[i].resp.kind = "json" /\ reqs[i].resp.key = "error"

C6_Witness ==
    \E i, j \in DOMAIN reqs :
        /\ reqs[i].path = "/send" /\ reqs[j].path = "/subscribe"
        /\ Failed(reqs[i]) /\ reqs[i].outcome.transport
        /\ Failed(reqs[j]) /\ reqs[j].outcome.code = 500
        /\ reqs[i].calls = 1 /\ reqs[j].calls = 1

(***************************************************************************)
(* C7: only method rejection sets a status other than 200.  Malformed      *)
(* body, empty field, missing secret, transport failure and non-accepted   *)
(* outbound status are all answered with status 200 and an error envelope, *)
(* as success is answered with status 200.                                 *)
(***************************************************************************)
C7_StatusCodes ==
    \A i \in DOMAIN reqs :
        Done(reqs[i]) =>
            /\ reqs[i].resp.status # StatusOK <=> ~IsPost(reqs[i])
            /\ IsPost(reqs[i]) =>
                  /\ reqs[i].resp.kind = "json"
                  /\ reqs[i].resp.key \in {"error", "status"}
                  /\ reqs[i].resp.key = "status" <=> SuccessEnvelope(reqs[i])
                  /\ ~Completed(reqs[i], Accepted(reqs[i].path))
                        => reqs[i].resp.key = "error"

C7_Witness ==
    \E i, j \in DOMAIN reqs :
        /\ Done(reqs[i]) /\ Done(reqs[j])
        /\ IsPost(reqs[i]) /\ ~Decodes(reqs[i])
        /\ reqs[i].resp.status = StatusOK /\ reqs[i].resp.key = "error"
        /\ Failed(reqs[j])
        /\ reqs[j].resp.status = StatusOK /\ reqs[j].resp.key = "error"

(***************************************************************************)
(* C8: under every interleaving, a request's response and outbound request *)
(* are those its handler produces when run alone on that request's own     *)
(* method and body, the startup Config, the environment and the outcome of *)
(* its own outbound call; a step of one request changes no other request,  *)
(* and the Config is not modified after startup.                           *)
(***************************************************************************)
StartupConfig ==
    [BotToken |-> Getenv(env, "TELEGRAM_BOT_TOKEN"),
     ChatID |-> Getenv(env, "TELEGRAM_CHAT_ID")]

\* The handler of r run alone, as far as r has come.
Alone(r) ==
    LET r0 == NewRequest(r.path, r.method, r.body)
        r1 == IF r.path = "/send" THEN handleSendMessageEntry(r0, StartupConfig)
                                  ELSE handleSubscribeEntry(r0, env)
    IN IF r.pc = "handle" THEN r0
       ELSE IF r.pc = "call" \/ r1.pc = "done" THEN r1
       ELSE IF r.path = "/send" THEN handleSendMessageReturn(r1, r.outcome)
                                ELSE handleSubscribeReturn(r1, r.outcome)

OwnStateOnly ==
    /\ Len(reqs') >= Len(reqs)
    /\ \A i, j \in DOMAIN reqs :
          (i # j /\ reqs'[i] # reqs[i]) => reqs'[j] = reqs[j]
    /\ \A i \in DOMAIN reqs :
          /\ reqs'[i].path = reqs[i].path
          /\ reqs'[i].method = reqs[i].method
          /\ reqs'[i].body = reqs[i].body
    /\ env' = env
    /\ proc # "boot" => config' = config

C8_Independent ==
    /\ [](\A i \in DOMAIN reqs : reqs[i] = Alone(reqs[i]))
    /\ [](proc = "serving" => config = StartupConfig)
    /\ [][OwnStateOnly]_vars

C8_Witness ==
    /\ Len(reqs) = 2
    /\ reqs[1].path = "/send" /\ reqs[1].pc = "call"
    /\ reqs[1].out.body["text"] = "hi"
    /\ reqs[2].path = "/send" /\ EmptyField(reqs[2]) /\ Done(reqs[2])
    /\ reqs[2] = Alone(reqs[2])

(***************************************************************************)
(* C9: each handler applies its checks in a fixed order and the first      *)
(* failing check alone determines the response; an outbound call happens   *)
(* only after every earlier check has passed.                              *)
(***************************************************************************)
MethodNotAllowedResponse ==
    [status |-> StatusMethodNotAllowed, kind |-> "text", key |-> "",
     text |-> <<"Method not allowed">>]
IsSubscribe(r) == r.path = "/subscribe"

\* The checks every statement of the order agrees on.
CommonOrder(r) ==
    /\ (Done(r) /\ ~IsPost(r)) => r.resp = MethodNotAllowedResponse
    /\ (Done(r) /\ IsPost(r) /\ ~Decodes(r))
          => ErrorEnvelope(r, <<"Invalid request body">>)
    /\ (Done(r) /\ EmptyField(r)) => ErrorEnvelope(r, EmptyText(r.path))
    /\ (Done(r) /\ IsSubscribe(r) /\ Valid(r) /\ PublicationID = "")
          => ErrorEnvelope(r, Required("BEEHIIV_PUBLICATION_ID"))
    /\ (ErrorEnvelope(r, Required("BEEHIIV_PUBLICATION_ID"))
          \/ ErrorEnvelope(r, Required("BEEHIIV_API_KEY")))
          => (IsSubscribe(r) /\ Valid(r))
    /\ r.calls >= 1 =>
          (Valid(r) /\ (IsSubscribe(r) => (PublicationID # "" /\ APIKey # "")))

\* C9 as stated: method, body decoding, empty field, BEEHIIV_PUBLICATION_ID
\* present, BEEHIIV_API_KEY present, outbound call.
C9_Original ==
    \A i \in DOMAIN reqs :
        /\ CommonOrder(reqs[i])
        /\ (Done(reqs[i]) /\ IsSubscribe(reqs[i]) /\ Valid(reqs[i])
              /\ PublicationID # "" /\ APIKey = "")
              => ErrorEnvelope(reqs[i], Required("BEEHIIV_API_KEY"))
        /\ (reqs[i].pc # "handle" /\ Valid(reqs[i])
              /\ (IsSubscribe(reqs[i]) => (PublicationID # "" /\ APIKey # "")))
              => reqs[i].calls = 1

\* C9 as amended: on /subscribe the construction of the outbound request
\* from the publication id is a check of its own, made after
\* BEEHIIV_PUBLICATION_ID is found present and before BEEHIIV_API_KEY is
\* looked at.
C9_CheckOrder ==
    \A i \in DOMAIN reqs :
        /\ CommonOrder(reqs[i])
        /\ (Done(reqs[i]) /\ IsSubscribe(reqs[i]) /\ Valid(reqs[i])
              /\ PublicationID # "" /\ ~URLParses(<<PublicationID>>))
              => ErrorEnvelope(reqs[i], <<"error creating request: ", "parse">>)
        /\ (Done(reqs[i]) /\ IsSubscribe(reqs[i]) /\ Valid(reqs[i])
              /\ PublicationID # "" /\ URLParses(<<PublicationID>>) /\ APIKey = "")
              => ErrorEnvelope(reqs[i], Required("BEEHIIV_API_KEY"))
        /\ (reqs[i].calls >= 1 /\ IsSubscribe(reqs[i])) => URLParses(<<PublicationID>>)
        /\ (reqs[i].pc # "handle" /\ Valid(reqs[i])
              /\ (IsSubscribe(reqs[i]) =>
                    (PublicationID # "" /\ URLParses(<<PublicationID>>) /\ APIKey # "")))
              => reqs[i].calls = 1

C9_Witness ==
    /\ PublicationID = "" /\ APIKey = ""
    /\ Len(reqs) = 2
    /\ \A i \in {1, 2} : IsSubscribe(reqs[i]) /\ IsPost(reqs[i]) /\ Done(reqs[i])
    /\ Valid(reqs[1])
    /\ ErrorEnvelope(reqs[1], Required("BEEHIIV_PUBLICATION_ID"))
    /\ ~Decodes(reqs[2])
    /\ ErrorEnvelope(reqs[2], <<"Invalid request body">>)

(***************************************************************************)
(* C10: every inbound request eventually receives exactly one response,    *)
(* given that its outbound call (if any) returns; a handler waits only on  *)
(* its outbound call, and a request rejected by the method, decoding,      *)
(* empty-field or missing-secret check is answered without one.            *)
(***************************************************************************)
Rejected(r) ==
    \/ ~IsPost(r)
    \/ ~Decodes(r)
    \/ EmptyField(r)
    \/ IsSubscribe(r) /\ (PublicationID = "" \/ APIKey = "")

C10_Responds ==
    /\ [](\A i \in DOMAIN reqs :
            /\ reqs[i].nresp <= 1
            /\ Done(reqs[i]) <=> reqs[i].nresp = 1
            /\ reqs[i].pc \in {"handle", "call", "done"}
            /\ reqs[i].pc = "handle"
                  => ENABLED (HandleSendMessage(i) \/ HandleSubscribe(i))
            /\ Rejected(reqs[i]) => (reqs[i].calls = 0 /\ reqs[i].pc # "call"))
    /\ \A i \in 1..MaxRequests :
          (Len(reqs) >= i) ~> (Len(reqs) >= i /\ Done(reqs[i]) /\ reqs[i].nresp = 1)

C10_Witness ==
    /\ Len(reqs) = 2
    /\ Done(reqs[1]) /\ reqs[1].calls = 1 /\ reqs[1].outcome.transport
    /\ reqs[1].nresp = 1
    /\ Done(reqs[2]) /\ Rejected(reqs[2]) /\ reqs[2].calls = 0
    /\ reqs[2].nresp = 1

====
